---- MODULE Spec2Model ----
(***************************************************************************)
(* Santorini Blue: the booking page (date and quantity validation, price   *)
(* summary), the checkout slot in local storage, and the payment page      *)
(* that consumes it.  Modelled from src/js/app.js.                         *)
(*                                                                         *)
(* Strings of the program are TLA+ strings where the code only copies or   *)
(* compares them (dates, messages) and sequences of one-character strings  *)
(* where the code parses them (quantity fields).  Time is counted in hours *)
(* instead of milliseconds.                                                *)
(***************************************************************************)
EXTENDS Integers, Sequences, FiniteSets, TLC

(***************************************************************************)
(* Bounds of the exploration.                                              *)
(***************************************************************************)
\* calendar days "2025-01-10" .. "2025-01-1<MaxDay>" are the dates a user picks
MaxDay == 2
\* the user adds rooms by clicking "+" while fewer than MaxRooms are selected
MaxRooms == 2
\* longest raw text of a quantity field handed to validateRoomQty on its own
MaxRawLen == 3

(***************************************************************************)
(* Program constants.                                                      *)
(***************************************************************************)
\* min / max of the quantity inputs (fallbacks of app.js:98-99, :162-163)
QtyMin == 0
QtyMax == 9
\* 1000 * 60 * 60 * 24 ms, counted in hours (app.js:47)
DayLen == 24

RoomIds == <<"std", "sup", "fam">>
RoomIdSet == {"std", "sup", "fam"}
\* const PRICES of computeTotal, USD per night
PRICES == [std |-> 200, sup |-> 300, fam |-> 400]

VARIABLES
    today,      \* day index of "today" (new Date() at 00:00)
    tzShift,    \* hours the local clock is set back (+1) or forward (-1) in the night after today
    layout,     \* "list": #summary-items exists; "compact": only .resumen-note
    page,       \* window.location: "booking" or "payment"
    slot,       \* localStorage["sb_checkout"]
    dom,        \* the booking page: form fields, summary, modal
    pay,        \* the payment page: load outcome, form fields, modal
    probe,      \* the last direct call of a validation function: input and result
    last        \* how the last handler ended: "updateSummary", "rejected", "stored",
                \* "idle"; on the payment page "load", "fill", "threw", "paid"

vars == <<today, tzShift, layout, page, slot, dom, pay, probe, last>>

(***************************************************************************)
(* JavaScript strings and numbers, as far as the quantity fields need      *)
(* them.  A number is n / 10^k, or NaN.                                    *)
(***************************************************************************)
\* x is evaluated first, then F is applied to its value: one statement after another
Then(x, F(_)) == CHOOSE y \in {F(v) : v \in {x}} : TRUE

Digits == <<"0", "1", "2", "3", "4", "5", "6", "7", "8", "9">>
IsDigit(c) == \E i \in 1..10 : Digits[i] = c
DigitVal(c) == (CHOOSE i \in 1..10 : Digits[i] = c) - 1

RECURSIVE Pow10(_)
Pow10(k) == IF k = 0 THEN 1 ELSE 10 * Pow10(k - 1)

RECURSIVE DigitsVal(_)
DigitsVal(s) ==
    IF s = <<>> THEN 0
    ELSE DigitsVal(SubSeq(s, 1, Len(s) - 1)) * 10 + DigitVal(s[Len(s)])

RECURSIVE NatToChars(_)
NatToChars(n) ==
    IF n < 10 THEN <<Digits[n + 1]>>
    ELSE NatToChars(n \div 10) \o <<Digits[(n % 10) + 1]>>

RECURSIVE TrimStart(_)
TrimStart(s) == IF s # <<>> /\ Head(s) = " " THEN TrimStart(Tail(s)) ELSE s

RECURSIVE TrimEnd(_)
TrimEnd(s) ==
    IF s # <<>> /\ s[Len(s)] = " " THEN TrimEnd(SubSeq(s, 1, Len(s) - 1)) ELSE s

\* String.prototype.trim
Trim(s) == TrimEnd(TrimStart(s))

NaN == [nan |-> TRUE, n |-> 0, k |-> 0]
Num(i) == [nan |-> FALSE, n |-> i, k |-> 0]

\* Number(string): blank is 0, a signed decimal literal is its value, the rest NaN
decimal(ip, fp, neg) ==
    [nan |-> FALSE,
     n |-> (IF neg THEN 0 - 1 ELSE 1) * (DigitsVal(ip) * Pow10(Len(fp)) + DigitsVal(fp)),
     k |-> Len(fp)]

WellFormed(body) ==
    /\ \A i \in 1..Len(body) : IsDigit(body[i]) \/ body[i] = "."
    /\ Cardinality({i \in 1..Len(body) : body[i] = "."}) <= 1
    /\ \E i \in 1..Len(body) : IsDigit(body[i])

DotIndex(body) ==
    IF \E i \in 1..Len(body) : body[i] = "."
    THEN CHOOSE i \in 1..Len(body) : body[i] = "."
    ELSE Len(body) + 1

splitAt(body, dot, neg) ==
    decimal(SubSeq(body, 1, dot - 1), SubSeq(body, dot + 1, Len(body)), neg)

parseBody(body, neg) ==
    IF WellFormed(body) THEN splitAt(body, DotIndex(body), neg) ELSE NaN

parseTrimmed(t) ==
    IF t = <<>> THEN Num(0)
    ELSE IF Head(t) \in {"-", "+"} THEN parseBody(Tail(t), Head(t) = "-")
    ELSE parseBody(t, FALSE)

ToNumber(s) == parseTrimmed(Trim(s))

\* Number.isInteger
IsInteger(x) == ~x.nan /\ x.n % Pow10(x.k) = 0
\* x < m and x > m for an integer m (false for NaN)
NumLess(x, m) == ~x.nan /\ x.n < m * Pow10(x.k)
NumGreater(x, m) == ~x.nan /\ x.n > m * Pow10(x.k)
NumAdd(x, d) == IF x.nan THEN x ELSE [x EXCEPT !.n = x.n + d * Pow10(x.k)]
IntOf(x) == x.n \div Pow10(x.k)

RECURSIVE StripZeros(_)
StripZeros(s) ==
    IF s # <<>> /\ s[Len(s)] = "0" THEN StripZeros(SubSeq(s, 1, Len(s) - 1)) ELSE s

RECURSIVE PadZeros(_, _)
PadZeros(s, k) == IF Len(s) >= k THEN s ELSE PadZeros(<<"0">> \o s, k)

fracChars(f, k) ==
    IF f = 0 THEN <<>> ELSE <<".">> \o StripZeros(PadZeros(NatToChars(f), k))

magToString(a, k) == NatToChars(a \div Pow10(k)) \o fracChars(a % Pow10(k), k)

\* String(number)
NumToString(x) ==
    IF x.nan THEN <<"N", "a", "N">>
    ELSE IF x.n < 0 THEN <<"-">> \o magToString(0 - x.n, x.k)
    ELSE magToString(x.n, x.k)

(***************************************************************************)
(* Dates.  The date inputs hold "" or an ISO date; day d is the string     *)
(* "2025-01-1d".                                                           *)
(***************************************************************************)
Days == 0..MaxDay
IsoDate(d) == "2025-01-1" \o Digits[d + 1]
DateValues == {""} \cup {IsoDate(d) : d \in Days}
DayOf(v) == CHOOSE d \in Days : IsoDate(d) = v

\* local midnight of day d, in hours
Midnight(d) == d * DayLen + (IF d > today THEN tzShift ELSE 0)

\* parseISODate: <<>> is null, <<t>> a Date
parseISODate(value) ==
    IF value = "" THEN <<>>
    ELSE IF \E d \in Days : IsoDate(d) = value THEN <<Midnight(DayOf(value))>>
    ELSE <<>>

\* Math.floor in place of Math.ceil
CeilAsFloor(a, b) == a \div b

\* Math.ceil(a / b) for b > 0
Ceil(a, b) == IF a % b = 0 THEN a \div b ELSE (a \div b) + 1

nightsOf(ms) == IF ms > 0 THEN Ceil(ms, DayLen) ELSE 0

calcNights(checkIn, checkOut) ==
    IF checkIn = <<>> \/ checkOut = <<>> THEN 0 ELSE nightsOf(checkOut[1] - checkIn[1])

\* the subtotal of one night, nights forgotten
computeTotalOneNight(qty, nights) ==
    qty.std * PRICES.std + qty.sup * PRICES.sup + qty.fam * PRICES.fam

computeTotal(qty, nights) ==
    (qty.std * PRICES.std + qty.sup * PRICES.sup + qty.fam * PRICES.fam) * nights

RECURSIVE NatToStr(_)
NatToStr(n) == IF n < 10 THEN Digits[n + 1] ELSE NatToStr(n \div 10) \o Digits[(n % 10) + 1]

\* three digits of a group after the first
group3(r) == (IF r < 10 THEN "00" ELSE IF r < 100 THEN "0" ELSE "") \o NatToStr(r)

\* en-US grouping of a whole number: 2100 is "2,100"
RECURSIVE Grouped(_)
Grouped(n) ==
    IF n < 1000 THEN NatToStr(n) ELSE Grouped(n \div 1000) \o "," \o group3(n % 1000)

\* formatPrice / money: Intl "en-US" currency format of a whole amount
formatPrice(amount) == "$" \o Grouped(amount) \o ".00"

\* pluralize(n, singular): "1 night", "3 nights"
pluralize(n, singular) ==
    IF n = 1 THEN "1 " \o singular ELSE NatToStr(n) \o " " \o singular \o "s"

(***************************************************************************)
(* The booking page.  dom is the record                                    *)
(*   checkin, checkout   value of #checkin, #checkout                      *)
(*   qty                 value of input[name=<id>_qty], by room id          *)
(*   guests              value of select#guests                            *)
(*   visible             by room id: card shown and input enabled          *)
(*   sumIn, sumOut       the two .resumen-line .muted spans ("--": a dash) *)
(*   items               the <li> of #summary-items: [id, text]            *)
(*   note                .resumen-note                                     *)
(*   warnHidden          .resumen-warn hidden                              *)
(*   totalText           .resumen-total                                    *)
(*   modal               message of the open #app-modal, "" when closed    *)
(***************************************************************************)
MsgQty == "Invalid quantity (must be an integer between 0 and 9)."
MsgComplete == "Complete Check-in and Check-out."
MsgInPast == "The check-in date cannot be earlier than today."
MsgOutPast == "The check-out date cannot be earlier than today."
MsgOrder == "The check-out date must be after the check-in date."
MsgRooms == "Please add rooms."

RoomNoun == [std |-> "Standard Room", sup |-> "Superior Room", fam |-> "Family Room"]
\* names of the payload rooms (buildCheckoutData)
RoomName == [std |-> "Standard Room", sup |-> "Superior Room", fam |-> "Family Suite"]

showModal(d, message) == [d EXCEPT !.modal = message]

hideModal(d) == [d EXCEPT !.modal = ""]

\* a rejected quantity is replaced by the upper bound instead of being emptied
clearValueClamps(d, el) ==
    IF el = "checkin" THEN [d EXCEPT !.checkin = ""]
    ELSE IF el = "checkout" THEN [d EXCEPT !.checkout = ""]
    ELSE [d EXCEPT !.qty[el] = <<"9">>]

\* el.value = "" for el "checkin", "checkout" or a room id (its quantity input)
clearValue(d, el) ==
    IF el = "checkin" THEN [d EXCEPT !.checkin = ""]
    ELSE IF el = "checkout" THEN [d EXCEPT !.checkout = ""]
    ELSE [d EXCEPT !.qty[el] = <<>>]

showErrorAndClear(d, el, message) == showModal(clearValue(d, el), message)

\* outDate < inDate in place of outDate <= inDate: equal dates pass
checkDatesEqualPass(d, inDate, outDate, now) ==
    IF inDate = <<>> \/ outDate = <<>> THEN [dom |-> d, ok |-> FALSE]
    ELSE IF inDate[1] < now
        THEN [dom |-> showErrorAndClear(d, "checkin", MsgInPast), ok |-> FALSE]
    ELSE IF outDate[1] < now
        THEN [dom |-> showErrorAndClear(d, "checkout", MsgOutPast), ok |-> FALSE]
    ELSE IF outDate[1] < inDate[1]
        THEN [dom |-> showErrorAndClear(d, "checkout", MsgOrder), ok |-> FALSE]
    ELSE [dom |-> d, ok |-> TRUE]

checkDates(d, inDate, outDate, now) ==
    IF inDate = <<>> \/ outDate = <<>> THEN [dom |-> d, ok |-> FALSE]
    ELSE IF inDate[1] < now
        THEN [dom |-> showErrorAndClear(d, "checkin", MsgInPast), ok |-> FALSE]
    ELSE IF outDate[1] < now
        THEN [dom |-> showErrorAndClear(d, "checkout", MsgOutPast), ok |-> FALSE]
    ELSE IF outDate[1] <= inDate[1]
        THEN [dom |-> showErrorAndClear(d, "checkout", MsgOrder), ok |-> FALSE]
    ELSE [dom |-> d, ok |-> TRUE]

\* validateDates: [dom, ok]
validateDates(d) ==
    checkDates(d, parseISODate(d.checkin), parseISODate(d.checkout), Midnight(today))

\* the test without its upper bound
QtyRejectedNoMax(num) ==
    \/ num.nan
    \/ ~IsInteger(num)
    \/ NumLess(num, QtyMin)

\* the test of validateRoomQty on the number of the trimmed, non-empty text
QtyRejected(num) ==
    \/ num.nan
    \/ ~IsInteger(num)
    \/ NumLess(num, QtyMin)
    \/ NumGreater(num, QtyMax)

judgeQty(d, id, num) ==
    IF QtyRejected(num)
    THEN [dom |-> showErrorAndClear(d, id, MsgQty), ret |-> 0]
    ELSE [dom |-> d, ret |-> IntOf(num)]

checkQty(d, id, raw) ==
    IF raw = <<>> THEN [dom |-> d, ret |-> 0] ELSE judgeQty(d, id, ToNumber(raw))

\* validateRoomQty on the quantity input of room id: [dom, ret]
validateRoomQty(d, id) == checkQty(d, id, Trim(d.qty[id]))

\* the three validateRoomQty calls of updateSummary and buildCheckoutData, in order
readQty(d) ==
    Then(validateRoomQty(d, "std"), LAMBDA a :
    Then(validateRoomQty(a.dom, "sup"), LAMBDA b :
    Then(validateRoomQty(b.dom, "fam"), LAMBDA c :
        [dom |-> c.dom, qty |-> [std |-> a.ret, sup |-> b.ret, fam |-> c.ret]])))

\* the same list built back to front: fam, sup, std
RECURSIVE SelectedReversed(_, _)
SelectedReversed(qty, i) ==
    IF i > Len(RoomIds) THEN <<>>
    ELSE SelectedReversed(qty, i + 1) \o (IF qty[RoomIds[i]] > 0 THEN <<RoomIds[i]>> ELSE <<>>)

\* room ids with a positive quantity, in the order std, sup, fam
RECURSIVE Selected(_, _)
Selected(qty, i) ==
    IF i > Len(RoomIds) THEN <<>>
    ELSE (IF qty[RoomIds[i]] > 0 THEN <<RoomIds[i]>> ELSE <<>>) \o Selected(qty, i + 1)

RECURSIVE Join(_, _)
Join(parts, sep) ==
    IF parts = <<>> THEN ""
    ELSE IF Len(parts) = 1 THEN parts[1]
    ELSE parts[1] \o sep \o Join(Tail(parts), sep)

spanText(v) == IF parseISODate(v) # <<>> THEN v ELSE "--"
nightsSuffix(nights) == IF nights > 0 THEN ", " \o pluralize(nights, "night") ELSE ""
itemTexts(qty, ids) == [i \in 1..Len(ids) |-> pluralize(qty[ids[i]], RoomNoun[ids[i]])]
compactNote(label, nights) ==
    IF label # "" /\ nights > 0 THEN label \o nightsSuffix(nights) ELSE label

\* the advisory follows the nights as well: hidden only for a priced stay
paintListNeedsNights(d, texts, ids, nights) ==
    [d EXCEPT
        !.items = [i \in 1..Len(ids) |-> [id |-> ids[i], text |-> texts[i] \o nightsSuffix(nights)]],
        !.note = "",
        !.warnHidden = Len(ids) > 0 /\ nights > 0]

paintList(d, texts, ids, nights) ==
    [d EXCEPT
        !.items = [i \in 1..Len(ids) |-> [id |-> ids[i], text |-> texts[i] \o nightsSuffix(nights)]],
        !.note = "",
        !.warnHidden = Len(ids) > 0]

paintCompact(d, label, nights) ==
    [d EXCEPT !.note = compactNote(label, nights), !.warnHidden = label # ""]

paintItems(d, texts, ids, nights) ==
    IF layout = "list" THEN paintList(d, texts, ids, nights)
    ELSE paintCompact(d, Join(texts, " + "), nights)

paint(d, qty, ids, nights) ==
    [paintItems(d, itemTexts(qty, ids), ids, nights) EXCEPT
        !.sumIn = spanText(d.checkin),
        !.sumOut = spanText(d.checkout),
        !.totalText = formatPrice(computeTotal(qty, nights))]

render(r, nights) == paint(r.dom, r.qty, Selected(r.qty, 1), nights)

updateSummary(d) ==
    Then(d, LAMBDA d0 :
    Then(calcNights(parseISODate(d0.checkin), parseISODate(d0.checkout)), LAMBDA nights :
    Then(readQty(d0), LAMBDA r : render(r, nights))))

(***************************************************************************)
(* The checkout slot.  A JSON value is [t, n, s, a]: t is "undef" (key     *)
(* missing), "num" (n), "str" (s) or "arr" (a, a sequence of room          *)
(* records).  The slot is absent, text that does not parse ("garbage"),    *)
(* the JSON null, or an object with the six keys of the payload.           *)
(***************************************************************************)
Undef == [t |-> "undef", n |-> 0, s |-> "", a |-> <<>>]
JNum(i) == [t |-> "num", n |-> i, s |-> "", a |-> <<>>]
JStr(x) == [t |-> "str", n |-> 0, s |-> x, a |-> <<>>]
JArr(x) == [t |-> "arr", n |-> 0, s |-> "", a |-> x]

\* truthiness of a JSON value
Truthy(v) ==
    CASE v.t = "undef" -> FALSE
      [] v.t = "num" -> v.n # 0
      [] v.t = "str" -> v.s # ""
      [] v.t = "arr" -> TRUE

EmptyObj ==
    [checkin |-> Undef, checkout |-> Undef, nights |-> Undef,
     rooms |-> Undef, totalRooms |-> Undef, total |-> Undef]

SlotAbsent == [kind |-> "absent", obj |-> EmptyObj]
SlotGarbage == [kind |-> "garbage", obj |-> EmptyObj]
SlotNull == [kind |-> "null", obj |-> EmptyObj]

\* JSON.stringify(data) of a payload of buildCheckoutData, as stored by setItem
stringify(data) ==
    [kind |-> "object",
     obj |-> [checkin |-> JStr(data.checkin), checkout |-> JStr(data.checkout),
              nights |-> JNum(data.nights), rooms |-> JArr(data.rooms),
              totalRooms |-> JNum(data.totalRooms), total |-> JNum(data.total)]]

\* every room record carries the Standard price
roomStdPrice(id, q) == [id |-> id, name |-> RoomName[id], qty |-> q, price |-> PRICES.std]

room(id, q) == [id |-> id, name |-> RoomName[id], qty |-> q, price |-> PRICES[id]]

roomsOf(qty, ids) == [i \in 1..Len(ids) |-> room(ids[i], qty[ids[i]])]

\* the record lists all three room types, the unselected ones with quantity 0
packDataAllRooms(d, r, nights) ==
    [dom |-> r.dom,
     data |-> [checkin |-> d.checkin, checkout |-> d.checkout, nights |-> nights,
               rooms |-> roomsOf(r.qty, <<"std", "sup", "fam">>),
               totalRooms |-> r.qty.std + r.qty.sup + r.qty.fam,
               total |-> computeTotal(r.qty, nights)]]

packData(d, r, nights) ==
    [dom |-> r.dom,
     data |-> [checkin |-> d.checkin, checkout |-> d.checkout, nights |-> nights,
               rooms |-> roomsOf(r.qty, Selected(r.qty, 1)),
               totalRooms |-> r.qty.std + r.qty.sup + r.qty.fam,
               total |-> computeTotal(r.qty, nights)]]

\* buildCheckoutData: [dom, data]
buildCheckoutData(d) ==
    Then(calcNights(parseISODate(d.checkin), parseISODate(d.checkout)), LAMBDA nights :
    Then(readQty(d), LAMBDA r : packData(d, r, nights)))

rejectCheckout(b, msg) == [dom |-> showModal(b.dom, msg), stored |-> FALSE, data |-> b.data]

\* the handler without its "Please add rooms." test
judgeCheckoutNoRooms(b, inDate, outDate, now) ==
    IF inDate = <<>> \/ outDate = <<>> THEN rejectCheckout(b, MsgComplete)
    ELSE IF inDate[1] < now THEN rejectCheckout(b, MsgInPast)
    ELSE IF outDate[1] < now THEN rejectCheckout(b, MsgOutPast)
    ELSE IF b.data.nights <= 0 THEN rejectCheckout(b, MsgOrder)
    ELSE [dom |-> b.dom, stored |-> TRUE, data |-> b.data]

judgeCheckout(b, inDate, outDate, now) ==
    IF inDate = <<>> \/ outDate = <<>> THEN rejectCheckout(b, MsgComplete)
    ELSE IF inDate[1] < now THEN rejectCheckout(b, MsgInPast)
    ELSE IF outDate[1] < now THEN rejectCheckout(b, MsgOutPast)
    ELSE IF b.data.nights <= 0 THEN rejectCheckout(b, MsgOrder)
    ELSE IF b.data.totalRooms = 0 THEN rejectCheckout(b, MsgRooms)
    ELSE [dom |-> b.dom, stored |-> TRUE, data |-> b.data]

checkoutOf(b) ==
    judgeCheckout(b, parseISODate(b.data.checkin), parseISODate(b.data.checkout),
                  Midnight(today))

\* the .btn-continue click handler: [dom, stored, data]
continueClick(d) == Then(buildCheckoutData(d), LAMBDA b : checkoutOf(b))

\* no upper clamp
clampMaxOff(v) == v

clampMax(v) == IF NumGreater(v, QtyMax) THEN Num(QtyMax) ELSE v
clampMin(v) == IF NumLess(v, QtyMin) THEN Num(QtyMin) ELSE v
\* Number(input.value || 0)
currentQty(raw) == IF raw = <<>> THEN Num(0) ELSE ToNumber(raw)

stepQty(d, id, delta) ==
    updateSummary(
        [d EXCEPT !.qty[id] = NumToString(clampMax(clampMin(NumAdd(currentQty(d.qty[id]), delta))))])

\* the click empties every line, not only its own
removeRoomAll(d, id) == updateSummary([d EXCEPT !.qty = [r \in RoomIdSet |-> <<"0">>]])

\* one of the two click handlers of a line's remove button
removeRoom(d, id) == updateSummary([d EXCEPT !.qty[id] = <<"0">>])

setVisibilityByQtyName(d, id, vis) == [d EXCEPT !.visible[id] = vis]

onlyOf(val) ==
    IF val = "1" THEN "std"
    ELSE IF val = "2" THEN "sup"
    ELSE IF val = "3-5" THEN "fam"
    ELSE "all"

showOnly(d, only) ==
    setVisibilityByQtyName(
        setVisibilityByQtyName(
            setVisibilityByQtyName(d, "std", only = "all" \/ only = "std"),
            "sup", only = "all" \/ only = "sup"),
        "fam", only = "all" \/ only = "fam")

filterRoomsByGuests(d) == showOnly(d, onlyOf(d.guests))

\* the filter is applied whatever validateDates answered
afterValidateAlwaysFilters(v) ==
    IF ~v.ok THEN filterRoomsByGuests(v.dom) ELSE updateSummary(filterRoomsByGuests(v.dom))

afterValidate(v) == IF ~v.ok THEN v.dom ELSE updateSummary(filterRoomsByGuests(v.dom))

handleSubmit(d) ==
    IF d.checkin = "" \/ d.checkout = ""
    THEN showErrorAndClear(d, "checkout", MsgComplete)
    ELSE Then(validateDates(d), LAMBDA v : afterValidate(v))

\* the date inputs keep nothing of the stored dates
dateValueBlank(v) == ""

\* what a date input keeps of a value assigned to it
dateValue(v) == IF v.t = "str" /\ v.s \in DateValues THEN v.s ELSE ""

RECURSIVE restoreRooms(_, _, _)
restoreRooms(d, rooms, i) ==
    IF i > Len(rooms) THEN d
    ELSE IF rooms[i].id \in RoomIdSet
    THEN Then(updateSummary([d EXCEPT !.qty[rooms[i].id] = NumToString(Num(rooms[i].qty))]),
              LAMBDA x : restoreRooms(x, rooms, i + 1))
    ELSE restoreRooms(d, rooms, i + 1)

restoreData(d, data) ==
    IF Truthy(data.rooms) /\ data.rooms.t # "arr"
    THEN [dom |-> d, threw |-> TRUE]
    ELSE Then(restoreRooms(d, data.rooms.a, 1), LAMBDA x :
            [dom |-> updateSummary([x EXCEPT !.guests = "all"]), threw |-> FALSE])

\* restoreFromCheckout: [dom, threw]
restoreFromCheckout(d, sl) ==
    IF sl.kind # "object" THEN [dom |-> d, threw |-> FALSE]
    ELSE restoreData([d EXCEPT !.checkin = dateValue(sl.obj.checkin),
                               !.checkout = dateValue(sl.obj.checkout)],
                     sl.obj)

\* the booking page as the HTML gives it, before any script has run
InitialDom ==
    [checkin |-> "", checkout |-> "",
     qty |-> [id \in RoomIdSet |-> <<"0">>],
     guests |-> "all",
     visible |-> [id \in RoomIdSet |-> TRUE],
     sumIn |-> "--", sumOut |-> "--", items |-> <<>>, note |-> "",
     warnHidden |-> FALSE, totalText |-> formatPrice(0), modal |-> ""]

finishInit(r) == IF r.threw THEN r.dom ELSE updateSummary(r.dom)

initBooking(d, sl) == Then(restoreFromCheckout(d, sl), LAMBDA r : finishInit(r))

(***************************************************************************)
(* The booking page: user events.  An open modal covers the page, so the   *)
(* user closes it before the next event.                                   *)
(***************************************************************************)
NoProbe == [fn |-> "none"]
NoPay == [state |-> "closed"]

\* number of rooms a quantity field asks for (0 when it is not a count)
countOf(x) == IF IsInteger(x) /\ x.n > 0 THEN IntOf(x) ELSE 0
FieldCount(raw) == countOf(ToNumber(raw))

TotalSelected(d) == FieldCount(d.qty.std) + FieldCount(d.qty.sup) + FieldCount(d.qty.fam)

Interactive == page = "booking" /\ dom.modal = ""

setDate(d, el, v) ==
    IF el = "checkin" THEN [d EXCEPT !.checkin = v] ELSE [d EXCEPT !.checkout = v]

\* the user picks a date (or clears the field): "input" then "change" fire
DateEdit(el, v) ==
    /\ Interactive
    /\ \E d \in {updateSummary(setDate(dom, el, v))} : dom' = updateSummary(d)
    /\ last' = "updateSummary"
    /\ UNCHANGED <<today, tzShift, layout, page, slot, pay, probe>>

\* click on [data-action="inc"] of a room card
IncAny(id) ==
    /\ Interactive
    /\ dom.visible[id]
    /\ dom' = stepQty(dom, id, 1)
    /\ last' = "updateSummary"
    /\ UNCHANGED <<today, tzShift, layout, page, slot, pay, probe>>

\* the same click while fewer than MaxRooms rooms are selected (or at the maximum)
IncClick(id) ==
    /\ TotalSelected(dom) < MaxRooms \/ FieldCount(dom.qty[id]) >= QtyMax
    /\ IncAny(id)

\* click on [data-action="dec"] of a room card
DecClick(id) ==
    /\ Interactive
    /\ dom.visible[id]
    /\ dom' = stepQty(dom, id, 0 - 1)
    /\ last' = "updateSummary"
    /\ UNCHANGED <<today, tzShift, layout, page, slot, pay, probe>>

\* click on the remove button of a summary line: the listener of #summary-items
\* runs, then the listener of .resumen
RemoveClick(id) ==
    /\ Interactive
    /\ \E i \in 1..Len(dom.items) : dom.items[i].id = id
    /\ \E d \in {removeRoom(dom, id)} : dom' = removeRoom(d, id)
    /\ last' = "updateSummary"
    /\ UNCHANGED <<today, tzShift, layout, page, slot, pay, probe>>

\* the user changes select#guests; no listener
GuestsChange(v) ==
    /\ Interactive
    /\ v # dom.guests
    /\ dom' = [dom EXCEPT !.guests = v]
    /\ last' = "idle"
    /\ UNCHANGED <<today, tzShift, layout, page, slot, pay, probe>>

\* submit of .book-form (Search)
SearchSubmit ==
    /\ Interactive
    /\ dom' = handleSubmit(dom)
    /\ last' = IF dom'.modal \in {MsgComplete, MsgInPast, MsgOutPast, MsgOrder}
               THEN "rejected" ELSE "updateSummary"
    /\ UNCHANGED <<today, tzShift, layout, page, slot, pay, probe>>

\* click on .btn-continue; a stored payload navigates to payment.html, which
\* discards the booking document
ContinueClick ==
    /\ Interactive
    /\ \E c \in {continueClick(dom)} :
           IF c.stored
           THEN /\ slot' = stringify(c.data)
                /\ page' = "payment"
                /\ dom' = InitialDom
           ELSE /\ dom' = c.dom
                /\ UNCHANGED <<slot, page>>
    /\ last' = IF page' = "payment" THEN "stored" ELSE "rejected"
    /\ UNCHANGED <<today, tzShift, layout, pay, probe>>

\* OK, the close button, a click outside or Escape
CloseModal ==
    /\ page = "booking"
    /\ dom.modal # ""
    /\ dom' = hideModal(dom)
    /\ last' = "idle"
    /\ UNCHANGED <<today, tzShift, layout, page, slot, pay, probe>>

\* a payload an earlier visit stored the day before
StoredPayload ==
    stringify([checkin |-> IsoDate(0), checkout |-> IsoDate(2), nights |-> 2,
               rooms |-> <<room("std", 2), room("sup", 1)>>,
               totalRooms |-> 3, total |-> 1400])

\* a record edited by hand: a quantity out of range and a room that does not exist
TamperedPayload ==
    [kind |-> "object",
     obj |-> [EmptyObj EXCEPT
                !.checkin = JStr(IsoDate(1)), !.checkout = JStr("soon"),
                !.rooms = JArr(<<[id |-> "sup", name |-> "Superior Room", qty |-> 12, price |-> 300],
                                 [id |-> "spa", name |-> "Spa", qty |-> 1, price |-> 50]>>)]]

BookingSlots == {SlotAbsent, StoredPayload, TamperedPayload}

Init ==
    /\ today = 1
    /\ tzShift = 0
    /\ layout \in {"list", "compact"}
    /\ page = "booking"
    /\ slot \in BookingSlots
    /\ dom = initBooking(InitialDom, slot)
    /\ pay = NoPay
    /\ probe = NoProbe
    /\ last = "updateSummary"

Next ==
    \/ \E el \in {"checkin", "checkout"}, v \in DateValues : DateEdit(el, v)
    \/ \E id \in RoomIdSet : IncClick(id)
    \/ \E id \in RoomIdSet : DecClick(id)
    \/ \E id \in RoomIdSet : RemoveClick(id)
    \/ \E v \in {"all", "1", "2", "3-5"} : GuestsChange(v)
    \/ SearchSubmit
    \/ ContinueClick
    \/ CloseModal

Spec == Init /\ [][Next]_vars

(***************************************************************************)
(* validateDates and calcNights on their own: every pair of date values,   *)
(* every today, with and without a clock change in the night after today.  *)
(***************************************************************************)
InitDates ==
    /\ today \in Days
    /\ tzShift \in {0 - 1, 0, 1}
    /\ layout = "list"
    /\ page = "booking"
    /\ slot = SlotAbsent
    /\ dom \in {[InitialDom EXCEPT !.checkin = a, !.checkout = b] : a, b \in DateValues}
    /\ pay = NoPay
    /\ probe = NoProbe
    /\ last = "idle"

CallValidateDates ==
    /\ probe.fn = "none"
    /\ \E v \in {validateDates(dom)} :
        /\ dom' = v.dom
        /\ probe' = [fn |-> "validateDates", checkin |-> dom.checkin,
                     checkout |-> dom.checkout, ok |-> v.ok,
                     nights |-> calcNights(parseISODate(dom.checkin),
                                           parseISODate(dom.checkout))]
    /\ UNCHANGED <<today, tzShift, layout, page, slot, pay, last>>

NextDates == CallValidateDates

SpecDates == InitDates /\ [][NextDates]_vars

(***************************************************************************)
(* validateRoomQty on its own: every text of up to MaxRawLen characters in *)
(* the Standard quantity field.                                            *)
(***************************************************************************)
QtyChars == {"0", "1", "2", "5", "9", "-", "+", ".", " ", "a"}
RawTexts == UNION {[1..n -> QtyChars] : n \in 0..MaxRawLen}

InitQty ==
    /\ today = 1
    /\ tzShift = 0
    /\ layout = "list"
    /\ page = "booking"
    /\ slot = SlotAbsent
    /\ dom \in {[InitialDom EXCEPT !.qty.std = raw] : raw \in RawTexts}
    /\ pay = NoPay
    /\ probe = NoProbe
    /\ last = "idle"

CallValidateRoomQty ==
    /\ probe.fn = "none"
    /\ \E v \in {validateRoomQty(dom, "std")} :
        /\ dom' = v.dom
        /\ probe' = [fn |-> "validateRoomQty", raw |-> dom.qty.std, ret |-> v.ret]
    /\ UNCHANGED <<today, tzShift, layout, page, slot, pay, last>>

NextQty == CallValidateRoomQty

SpecQty == InitQty /\ [][NextQty]_vars

(***************************************************************************)
(* The payment page.  pay is the record                                    *)
(*   state       "loading": the document is parsed, its DOMContentLoaded   *)
(*               handler has not run; "redirected": location.replace was   *)
(*               called; "crashed": the handler threw after the test of    *)
(*               the payload; "ready": summary rendered, listeners bound   *)
(*   sumIn, sumOut, sumNights, sumTotal   text of #sum-in ... #sum-total    *)
(*   sumRooms    the .sum-row of #sum-rooms: [label, amount]               *)
(*   value, err  by field id: the input's value, its error message         *)
(*   modal       message of the open #app-modal, "" when closed            *)
(*   sent        the values of the last submit, empty once a field changed *)
(* The fields address and country have no validation and are left out.     *)
(***************************************************************************)
MsgNameRequired == "This field is required."
MsgNameShort == "Minimum 2 characters."
MsgNameLetters == "Letters and spaces only."
MsgEmailRequired == "Email is required."
MsgEmailBad == "Enter a valid email."
MsgCardRequired == "Card number is required."
MsgCardLength == "Card number must be 16 digits."
MsgCardBad == "Invalid card number."
MsgHolderRequired == "Name on card is required."
MsgHolderBad == "Use letters and spaces only."
MsgExpRequired == "Expiry is required."
MsgExpShape == "Use MM/YY."
MsgExpMonth == "Invalid month."
MsgExpired == "Card is expired."
MsgCvv == "CVV must be 3-4 digits."
MsgPhone == "Phone must be 7-12 digits."
MsgZip == "ZIP must be up to 4 digits."
MsgIncomplete == "Please complete all required fields."
MsgPaid == "Payment successful! A confirmation email has been sent."

PayIds == {"fname", "lname", "email", "phone", "card", "nameoncard", "exp", "cvv", "zip"}
Required == <<"fname", "lname", "email", "card", "nameoncard", "exp", "cvv">>

Letters ==
    {"a", "b", "c", "d", "e", "f", "g", "h", "i", "j", "k", "l", "m",
     "n", "o", "p", "q", "r", "s", "t", "u", "v", "w", "x", "y", "z",
     "A", "B", "C", "D", "E", "F", "G", "H", "I", "J", "K", "L", "M",
     "N", "O", "P", "Q", "R", "S", "T", "U", "V", "W", "X", "Y", "Z"}

LettersAndSpaces(s) == \A i \in 1..Len(s) : s[i] \in Letters \/ s[i] = " "

\* v.replace(/\D/g, '')
onlyDigits(v) == SelectSeq(v, IsDigit)

\* new Date() on the payment page: the month of today
Clock == [year |-> 2025, month |-> 1]

\* money: the en-US currency format of (n || 0)
money(v) ==
    IF v.t = "num" THEN formatPrice(v.n)
    ELSE IF v.t = "undef" THEN formatPrice(0)
    ELSE "$NaN"

nameMsg(s) ==
    IF s = <<>> THEN MsgNameRequired
    ELSE IF Len(s) < 2 THEN MsgNameShort
    ELSE IF ~LettersAndSpaces(s) THEN MsgNameLetters
    ELSE ""

validateName(v) == nameMsg(Trim(v))

\* [^\s@]+ or [^\s@]*
Plain(s) == \A i \in 1..Len(s) : s[i] \notin {" ", "@"}

\* /^[^\s@]+@[^\s@]+\.[^\s@]{2,}$/
EmailShape(s) ==
    \E i, j \in 1..Len(s) :
        /\ 1 < i /\ i + 1 < j /\ j + 2 <= Len(s)
        /\ s[i] = "@" /\ s[j] = "."
        /\ Plain(SubSeq(s, 1, i - 1))
        /\ Plain(SubSeq(s, i + 1, j - 1))
        /\ Plain(SubSeq(s, j + 1, Len(s)))

emailMsg(s) ==
    IF s = <<>> THEN MsgEmailRequired ELSE IF EmailShape(s) THEN "" ELSE MsgEmailBad

validateEmail(v) == emailMsg(Trim(v))

luhnDigit(d, dbl) == IF ~dbl THEN d ELSE IF 2 * d > 9 THEN 2 * d - 9 ELSE 2 * d

RECURSIVE luhnSum(_, _, _)
luhnSum(num, i, dbl) ==
    IF i = 0 THEN 0
    ELSE luhnDigit(DigitVal(num[i]), dbl) + luhnSum(num, i - 1, ~dbl)

luhn(num) == luhnSum(num, Len(num), FALSE) % 10 = 0

cardMsg(d) ==
    IF d = <<>> THEN MsgCardRequired
    ELSE IF Len(d) # 16 THEN MsgCardLength
    ELSE IF luhn(d) THEN ""
    ELSE MsgCardBad

validateCard(v) == cardMsg(onlyDigits(v))

holderMsg(s) ==
    IF s = <<>> THEN MsgHolderRequired
    ELSE IF Len(s) < 2 \/ Len(s) > 40 \/ ~LettersAndSpaces(s) THEN MsgHolderBad
    ELSE ""

validateNameOnCard(v) == holderMsg(Trim(v))

\* \s*\/\s*
Slash(s) ==
    /\ Cardinality({i \in 1..Len(s) : s[i] = "/"}) = 1
    /\ \A i \in 1..Len(s) : s[i] \in {"/", " "}

\* /^(\d{2})\s*\/\s*(\d{2})$/
ExpShape(s) ==
    /\ Len(s) >= 5
    /\ IsDigit(s[1]) /\ IsDigit(s[2]) /\ IsDigit(s[Len(s) - 1]) /\ IsDigit(s[Len(s)])
    /\ Slash(SubSeq(s, 3, Len(s) - 2))

\* new Date(2000 + yy, mm) <= new Date(year, month index + 1, 1), in months
expJudge(mm, yy, now) ==
    IF mm < 1 \/ mm > 12 THEN MsgExpMonth
    ELSE IF (2000 + yy) * 12 + mm <= now.year * 12 + now.month THEN MsgExpired
    ELSE ""

expMsg(s) ==
    IF s = <<>> THEN MsgExpRequired
    ELSE IF ~ExpShape(s) THEN MsgExpShape
    ELSE expJudge(DigitsVal(SubSeq(s, 1, 2)), DigitsVal(SubSeq(s, Len(s) - 1, Len(s))), Clock)

validateExp(v) == expMsg(Trim(v))

cvvMsg(d) == IF Len(d) = 3 \/ Len(d) = 4 THEN "" ELSE MsgCvv

validateCvv(v) == cvvMsg(onlyDigits(v))

phoneMsg(d) ==
    IF d = <<>> THEN "" ELSE IF Len(d) < 7 \/ Len(d) > 12 THEN MsgPhone ELSE ""

validatePhone(v) == phoneMsg(onlyDigits(v))

zipMsg(d) == IF d = <<>> THEN "" ELSE IF Len(d) > 4 THEN MsgZip ELSE ""

validateZip(v) == zipMsg(onlyDigits(v))

\* the switch of validateField, but for case 'cvv'
fieldMsg(id, value) ==
    CASE id \in {"fname", "lname"} -> validateName(value)
      [] id = "email" -> validateEmail(value)
      [] id = "phone" -> validatePhone(value)
      [] id = "card" -> validateCard(value)
      [] id = "nameoncard" -> validateNameOnCard(value)
      [] id = "exp" -> validateExp(value)
      [] id = "zip" -> validateZip(value)

setErr(p, id, msg) == [pay |-> [p EXCEPT !.err[id] = msg], ok |-> msg = "", threw |-> FALSE]

\* validateField: [pay, ok, threw].  case 'cvv' calls validateCVV, a name the
\* file never defines (the function of lines 952-956 is validateCvv): the call
\* throws a ReferenceError before setErr
validateField(p, id) ==
    IF id = "cvv" THEN [pay |-> p, ok |-> FALSE, threw |-> TRUE]
    ELSE setErr(p, id, fieldMsg(id, p.value[id]))

\* ['fname', ..., 'cvv'].map(id => validateField(...)).every(Boolean)
RECURSIVE validateRequired(_, _, _)
validateRequired(p, i, allOk) ==
    IF i > Len(Required) THEN [pay |-> p, ok |-> allOk, threw |-> FALSE]
    ELSE Then(validateField(p, Required[i]), LAMBDA r :
            IF r.threw THEN [pay |-> r.pay, ok |-> FALSE, threw |-> TRUE]
            ELSE validateRequired(r.pay, i + 1, allOk /\ r.ok))

validateIfFilled(p, id) == IF p.value[id] # <<>> THEN validateField(p, id).pay ELSE p

\* ['phone', 'zip'].forEach(...)
validateOptional(p) == validateIfFilled(validateIfFilled(p, "phone"), "zip")

EmptyForm == [id \in PayIds |-> <<>>]
NoErrors == [id \in PayIds |-> ""]

\* the end of the submit handler: [pay, slot, outcome]
settle(p, requiredOk, sl) ==
    IF ~requiredOk
    THEN [pay |-> [p EXCEPT !.modal = MsgIncomplete], slot |-> sl, outcome |-> "rejected"]
    ELSE [pay |-> [p EXCEPT !.modal = MsgPaid, !.value = EmptyForm, !.err = NoErrors],
          slot |-> SlotAbsent, outcome |-> "paid"]

afterRequired(r, sl) ==
    IF r.threw THEN [pay |-> r.pay, slot |-> sl, outcome |-> "threw"]
    ELSE settle(validateOptional(r.pay), r.ok, sl)

\* the submit handler of #pay-form: [pay, slot, outcome]
submitPay(p, sl) == Then(validateRequired(p, 1, TRUE), LAMBDA r : afterRequired(r, sl))

\* the "input" listener, then the "blur" listener of a field; a listener that
\* throws ends alone, the next one still runs
onInput(p, id) == IF p.err[id] # "" THEN validateField(p, id).pay ELSE p
onBlur(p, id) == validateField(p, id).pay
fillField(p, id, v) ==
    Then(onInput([p EXCEPT !.value[id] = v, !.sent = EmptyForm], id), LAMBDA q : onBlur(q, id))

\* JSON.parse(localStorage.getItem("sb_checkout") || "{}"), {} when it throws
parseSlot(sl) == IF sl.kind = "object" THEN sl.obj ELSE EmptyObj

\* data.rooms.length as a condition
LengthTruthy(v) ==
    CASE v.t = "arr" -> Len(v.a) > 0
      [] v.t = "str" -> v.s # ""
      [] OTHER -> FALSE

\* the test before window.location.replace('booking.html')
NoCheckout(sl, data) ==
    \/ sl.kind = "null"
    \/ ~Truthy(data.total)
    \/ ~Truthy(data.rooms)
    \/ ~LengthTruthy(data.rooms)

\* el.textContent = v
textContent(v) ==
    CASE v.t = "str" -> v.s
      [] v.t = "num" -> NatToStr(v.n)
      [] OTHER -> ""

\* r.qty * r.price * data.nights, NaN || 0 for nights undefined
rowAmount(r, nights) == IF nights.t = "num" THEN JNum(r.qty * r.price * nights.n) ELSE JNum(0)

sumRow(r, nights) ==
    [label |-> NatToStr(r.qty) \o " " \o r.name \o (IF r.qty > 1 THEN "s" ELSE ""),
     amount |-> money(rowAmount(r, nights))]

BlankPay ==
    [state |-> "loading", sumIn |-> "", sumOut |-> "", sumNights |-> "", sumTotal |-> "",
     sumRooms |-> <<>>, value |-> EmptyForm, err |-> NoErrors, modal |-> "", sent |-> EmptyForm]

writeTotals(p, data) ==
    [p EXCEPT !.sumIn = textContent(data.checkin), !.sumOut = textContent(data.checkout),
              !.sumNights = textContent(data.nights), !.sumTotal = money(data.total)]

\* data.rooms.map(...): a TypeError when rooms is not an array
writeRooms(p, data) ==
    IF data.rooms.t # "arr" THEN [p EXCEPT !.state = "crashed"]
    ELSE [p EXCEPT !.state = "ready",
                   !.sumRooms = [i \in 1..Len(data.rooms.a) |-> sumRow(data.rooms.a[i], data.nights)]]

renderPay(p, sl, data) ==
    IF NoCheckout(sl, data) THEN [p EXCEPT !.state = "redirected"]
    ELSE writeRooms(writeTotals(p, data), data)

\* the DOMContentLoaded handler of payment.html
loadPayment(p, sl) == renderPay(p, sl, parseSlot(sl))

\* what the user types into each field
A16 == <<"4", "2", "4", "2", "4", "2", "4", "2", "4", "2", "4", "2", "4", "2", "4", "2">>
B16 == <<"4", "2", "4", "2", "4", "2", "4", "2", "4", "2", "4", "2", "4", "2", "4", "1">>
Typed ==
    [fname |-> {<<>>, <<"A", "n", "a">>},
     lname |-> {<<>>, <<"L", "i">>, <<"L", "1">>},
     email |-> {<<>>, <<"a", "@", "b", ".", "c", "o">>, <<"a", "@", "b">>},
     phone |-> {<<>>, <<"5", "5", "5">>},
     card |-> {<<>>, A16, B16},
     nameoncard |-> {<<>>, <<"A", "n", "a", " ", "L", "i">>},
     exp |-> {<<>>, <<"1", "2", "/", "3", "0">>, <<"0", "1", "/", "2", "0">>},
     cvv |-> {<<>>, <<"1", "2", "3">>},
     zip |-> {<<>>}]

\* the payload of a valid booking, and what is left of it after an edit by hand
WithoutNights == [StoredPayload EXCEPT !.obj.nights = Undef]
WithoutTotal == [StoredPayload EXCEPT !.obj.total = Undef]
WithoutRooms == [StoredPayload EXCEPT !.obj.rooms = Undef]
RoomsEmpty == [StoredPayload EXCEPT !.obj.rooms = JArr(<<>>)]
RoomsNumber == [StoredPayload EXCEPT !.obj.rooms = JNum(3)]
RoomsText == [StoredPayload EXCEPT !.obj.rooms = JStr("std")]
EmptyRecord == [kind |-> "object", obj |-> EmptyObj]

PaySlots ==
    {SlotAbsent, SlotGarbage, SlotNull, EmptyRecord, StoredPayload, WithoutNights,
     WithoutTotal, WithoutRooms, RoomsEmpty, RoomsNumber, RoomsText}

InitPay ==
    /\ today = 1
    /\ tzShift = 0
    /\ layout = "list"
    /\ page = "payment"
    /\ slot \in PaySlots
    /\ dom = InitialDom
    /\ pay = BlankPay
    /\ probe = NoProbe
    /\ last = "idle"

\* DOMContentLoaded on payment.html
PaymentLoad ==
    /\ page = "payment"
    /\ pay.state = "loading"
    /\ pay' = loadPayment(pay, slot)
    /\ page' = IF pay'.state = "redirected" THEN "booking" ELSE "payment"
    /\ last' = "load"
    /\ UNCHANGED <<today, tzShift, layout, slot, dom, probe>>

\* the user types v into a field and leaves it
FillField(id, v) ==
    /\ page = "payment"
    /\ pay.state = "ready"
    /\ pay.modal = ""
    /\ v # pay.value[id]
    /\ pay' = fillField(pay, id, v)
    /\ last' = "fill"
    /\ UNCHANGED <<today, tzShift, layout, page, slot, dom, probe>>

\* submit of #pay-form
SubmitPay ==
    /\ page = "payment"
    /\ pay.state = "ready"
    /\ pay.modal = ""
    /\ \E r \in {submitPay(pay, slot)} :
        /\ pay' = [r.pay EXCEPT !.sent = pay.value]
        /\ slot' = r.slot
        /\ last' = r.outcome
    /\ UNCHANGED <<today, tzShift, layout, page, dom, probe>>

NextPay ==
    \/ PaymentLoad
    \/ \E id \in PayIds : \E v \in Typed[id] : FillField(id, v)
    \/ SubmitPay

SpecPay == InitPay /\ [][NextPay]_vars

(***************************************************************************)
(* What the claims speak of, stated on the field values themselves.        *)
(***************************************************************************)
HasDates(d) == d.checkin # "" /\ d.checkout # ""

\* both dates present, neither before today, check-out after check-in, a room selected
ValidBooking(d) ==
    /\ HasDates(d)
    /\ DayOf(d.checkin) >= today
    /\ DayOf(d.checkout) >= today
    /\ DayOf(d.checkout) > DayOf(d.checkin)
    /\ TotalSelected(d) > 0

\* the nights of the current date fields
FieldNights(d) == calcNights(parseISODate(d.checkin), parseISODate(d.checkout))

\* the price of the current fields: (std*200 + sup*300 + fam*400) * nights
FieldTotal(d) ==
    (FieldCount(d.qty.std) * 200 + FieldCount(d.qty.sup) * 300 + FieldCount(d.qty.fam) * 400)
        * FieldNights(d)

IsSelected(d, id) == FieldCount(d.qty[id]) > 0

\* the room types with a positive quantity: Standard, then Superior, then Family
FieldIds(d) ==
    (IF IsSelected(d, "std") THEN <<"std">> ELSE <<>>)
        \o (IF IsSelected(d, "sup") THEN <<"sup">> ELSE <<>>)
        \o (IF IsSelected(d, "fam") THEN <<"fam">> ELSE <<>>)

ItemIds(d) == [i \in 1..Len(d.items) |-> d.items[i].id]

\* the compact label names the same room types in the same order
NoteOf(ids, d) ==
    Join([i \in 1..Len(ids) |-> pluralize(FieldCount(d.qty[ids[i]]), RoomNoun[ids[i]])], " + ")
        \o (IF ids # <<>> /\ FieldNights(d) > 0
            THEN ", " \o pluralize(FieldNights(d), "night") ELSE "")

LinesMatch(d) ==
    IF layout = "list" THEN ItemIds(d) = FieldIds(d) ELSE d.note = NoteOf(FieldIds(d), d)

\* C1: the slot changes and the page leaves for payment.html only in a Continue
\* click on a valid booking (both dates, neither before today, check-out after
\* check-in, a room selected); a Continue click in any other state leaves both.
C1_SlotWrittenOnlyByValidContinue ==
    [][/\ (slot' # slot \/ page' # page) => (ContinueClick /\ ValidBooking(dom))
       /\ ~ValidBooking(dom) => (slot' = slot /\ page' = page)]_vars

C1_Witness ==
    /\ page = "payment"
    /\ slot.kind = "object"
    /\ slot.obj.total = JNum(200)
    /\ slot.obj.checkin = JStr(IsoDate(1))

\* C4: after every recomputation the displayed total is the price of the
\* quantities and nights it read; with no nights it is $0.00 and the selected
\* room types are still listed.
C4_TotalAfterRecompute ==
    last = "updateSummary" =>
        /\ dom.totalText = formatPrice(FieldTotal(dom))
        /\ FieldNights(dom) = 0 => (dom.totalText = "$0.00" /\ LinesMatch(dom))

C4_Witness ==
    /\ page = "booking" /\ last = "updateSummary"
    /\ slot = SlotAbsent
    /\ dom.qty.std = <<"1">> /\ dom.qty.sup = <<"1">> /\ dom.qty.fam = <<"0">>
    /\ dom.checkin = IsoDate(0) /\ dom.checkout = IsoDate(2)
    /\ dom.totalText = "$1,000.00"

\* C10: after every recomputation the lines are exactly the room types with a
\* positive quantity, once each, in the order Standard, Superior, Family.
C10_LinesInFixedOrder == last = "updateSummary" => LinesMatch(dom)

C10_Witness ==
    /\ page = "booking" /\ last = "updateSummary"
    /\ slot = SlotAbsent
    /\ layout = "list"
    /\ ItemIds(dom) = <<"std", "fam">>

\* C6: for check-out after check-in, check-in not before today, validateDates
\* succeeds and the nights are the elapsed time in days rounded up, at least 1.
C6_ValidRangeHasNights ==
    (/\ probe.fn = "validateDates"
     /\ probe.checkin # "" /\ probe.checkout # ""
     /\ DayOf(probe.checkout) > DayOf(probe.checkin)
     /\ DayOf(probe.checkin) >= today)
    => /\ probe.ok
       /\ dom.modal = ""
       /\ probe.nights >= 1
       /\ (probe.nights - 1) * DayLen
            < Midnight(DayOf(probe.checkout)) - Midnight(DayOf(probe.checkin))
       /\ Midnight(DayOf(probe.checkout)) - Midnight(DayOf(probe.checkin))
            <= probe.nights * DayLen
       /\ tzShift = 0 => probe.nights = DayOf(probe.checkout) - DayOf(probe.checkin)

C6_Witness ==
    /\ probe.fn = "validateDates"
    /\ today = 0 /\ tzShift = 0
    /\ probe.checkin = IsoDate(0) /\ probe.checkout = IsoDate(2)
    /\ probe.ok /\ probe.nights = 2

\* C7 as stated: every pair with check-out not after check-in fails with
\* "The check-out date must be after the check-in date."
C7_AsStated ==
    (/\ probe.fn = "validateDates"
     /\ probe.checkin # "" /\ probe.checkout # ""
     /\ DayOf(probe.checkout) <= DayOf(probe.checkin))
    => (~probe.ok /\ dom.modal = MsgOrder)

\* C7 amended: every pair with check-out not after check-in fails; the message
\* is the check-out-after-check-in one when neither date is before today, the
\* check-in-in-the-past one when check-in is before today, else the
\* check-out-in-the-past one.
C7_FailsByPriority ==
    (/\ probe.fn = "validateDates"
     /\ probe.checkin # "" /\ probe.checkout # ""
     /\ DayOf(probe.checkout) <= DayOf(probe.checkin))
    => /\ ~probe.ok
       /\ dom.modal = (IF DayOf(probe.checkin) < today THEN MsgInPast
                       ELSE IF DayOf(probe.checkout) < today THEN MsgOutPast
                       ELSE MsgOrder)

C7_Witness ==
    /\ probe.fn = "validateDates"
    /\ today = 1
    /\ probe.checkin = IsoDate(1) /\ probe.checkout = IsoDate(1)
    /\ ~probe.ok /\ dom.modal = MsgOrder
\* the texts that denote the integer n: an optional sign, digits of value n, an
\* optional point followed by zeros only ("7", "+7", "07", "7.", "7.0", "-0", ".0")
AllZeros(s) == \A i \in 1..Len(s) : s[i] = "0"
AllDigits(s) == \A i \in 1..Len(s) : IsDigit(s[i])
PointZeros(s) == s = <<>> \/ (Head(s) = "." /\ AllZeros(Tail(s)))
Unsigned(t, n) ==
    \E k \in 0..Len(t) :
        /\ AllDigits(SubSeq(t, 1, k))
        /\ PointZeros(SubSeq(t, k + 1, Len(t)))
        /\ k > 0 \/ Len(t) > 1
        /\ DigitsVal(SubSeq(t, 1, k)) = n
Denotes(t, n) ==
    /\ t # <<>>
    /\ \/ Unsigned(t, n)
       \/ Head(t) = "+" /\ Unsigned(Tail(t), n)
       \/ Head(t) = "-" /\ n = 0 /\ Unsigned(Tail(t), 0)
InRange(t) == \E n \in QtyMin..QtyMax : Denotes(t, n)

\* C8: validateRoomQty returns a value for every text.  For a text that denotes
\* an integer from 0 to 9 it returns that integer, shows no error and leaves the
\* field; for an empty (or blank) text it returns 0 with no error; for every
\* other text it returns 0, shows the invalid-quantity message and empties the
\* field, whatever bound was nearest.
C8_QuantityValidation ==
    probe.fn = "validateRoomQty" =>
        /\ probe.ret \in QtyMin..QtyMax
        /\ Trim(probe.raw) = <<>> =>
              (probe.ret = 0 /\ dom.modal = "" /\ dom.qty.std = probe.raw)
        /\ \A n \in QtyMin..QtyMax : Denotes(Trim(probe.raw), n) =>
              (probe.ret = n /\ dom.modal = "" /\ dom.qty.std = probe.raw)
        /\ (Trim(probe.raw) # <<>> /\ ~InRange(Trim(probe.raw))) =>
              (probe.ret = 0 /\ dom.modal = MsgQty /\ dom.qty.std = <<>>)

C8_Witness ==
    /\ probe.fn = "validateRoomQty"
    /\ probe.raw = <<"2", ".", "5">>
    /\ probe.ret = 0
    /\ dom.modal = MsgQty
    /\ dom.qty.std = <<>>

\* the summary shows what the date and quantity fields hold
SummaryConsistent(d) ==
    /\ d.sumIn = (IF d.checkin # "" THEN d.checkin ELSE "--")
    /\ d.sumOut = (IF d.checkout # "" THEN d.checkout ELSE "--")
    /\ d.totalText = formatPrice(FieldTotal(d))
    /\ LinesMatch(d)

\* C5 as stated: in every state of the booking page, after any handled event,
\* the displayed check-in, check-out, lines and total are those of the fields.
C5_SummaryFollowsFields == page = "booking" => SummaryConsistent(dom)

\* C9 as stated: after a rejected Search or Continue a message is shown and the
\* field at fault is empty: check-in for a check-in in the past, check-out for a
\* check-out in the past or not after check-in, one of the two for a missing date.
C9_RejectionClearsCause ==
    (page = "booking" /\ last = "rejected") =>
        /\ dom.modal # ""
        /\ dom.modal = MsgInPast => dom.checkin = ""
        /\ dom.modal \in {MsgOutPast, MsgOrder} => dom.checkout = ""
        /\ dom.modal = MsgComplete => (dom.checkin = "" \/ dom.checkout = "")

\* every required field of the form v passes its validator
RequiredValid(v) ==
    /\ validateName(v.fname) = ""
    /\ validateName(v.lname) = ""
    /\ validateEmail(v.email) = ""
    /\ validateCard(v.card) = ""
    /\ validateNameOnCard(v.nameoncard) = ""
    /\ validateExp(v.exp) = ""
    /\ validateCvv(v.cvv) = ""

\* C2 as stated: a submit with every required field valid ends with the success
\* message shown and the slot absent.
C2_ValidSubmitCompletes ==
    (page = "payment" /\ last \in {"threw", "rejected", "paid"} /\ RequiredValid(pay.sent))
        => (last = "paid" /\ pay.modal = MsgPaid /\ slot = SlotAbsent)

\* a record with a non-empty sequence of rooms, nights and total
WellFormedPayload(sl) ==
    /\ sl.kind = "object"
    /\ sl.obj.rooms.t = "arr" /\ Len(sl.obj.rooms.a) > 0
    /\ sl.obj.nights.t = "num"
    /\ sl.obj.total.t = "num"

\* C3 as stated: loading the payment page with a slot that is absent, not
\* parseable, not a well-formed payload or without rooms redirects to the booking
\* page, raises nothing and renders nothing.
C3_BadSlotRedirects ==
    (last = "load" /\ ~WellFormedPayload(slot)) =>
        /\ pay.state = "redirected"
        /\ page = "booking"
        /\ pay.sumTotal = "" /\ pay.sumRooms = <<>>

\* C11: after every recomputation the "please add rooms" advisory is visible
\* exactly when no room type has a positive quantity, whatever the date fields
\* hold (empty, in the past, in the wrong order or valid).
C11_AdvisoryFollowsSelection ==
    last = "updateSummary" => (dom.warnHidden <=> TotalSelected(dom) > 0)

C11_Witness ==
    /\ page = "booking" /\ last = "updateSummary"
    /\ dom.checkin = "" /\ dom.checkout = IsoDate(0)
    /\ TotalSelected(dom) = 1
    /\ dom.warnHidden

(***************************************************************************)
(* updateSummary and buildCheckoutData on their own: a form whose date and *)
(* quantity fields hold any of the texts below (as a restored payload or a *)
(* script may leave them), recomputed up to MaxRuns times and packed once.  *)
(***************************************************************************)
MaxRuns == 2

FormTexts == {<<>>, <<"0">>, <<"1">>, <<"3">>, <<"1", "2">>, <<"2", ".", "5">>}

\* what the summary displays
Shown(d) ==
    [sumIn |-> d.sumIn, sumOut |-> d.sumOut, items |-> d.items, note |-> d.note,
     warnHidden |-> d.warnHidden, totalText |-> d.totalText]

EmptyData ==
    [checkin |-> "", checkout |-> "", nights |-> 0, rooms |-> <<>>, totalRooms |-> 0, total |-> 0]

\* nothing was called yet on this page
NoCalls == [fn |-> "none", runs |-> 0, shown |-> Shown(InitialDom), data |-> EmptyData]

InitForm ==
    /\ today = 1
    /\ tzShift = 0
    /\ layout \in {"list", "compact"}
    /\ page = "booking"
    /\ slot = SlotAbsent
    /\ dom \in {[InitialDom EXCEPT !.checkin = a, !.checkout = b,
                                   !.qty = [std |-> x, sup |-> y, fam |-> z]] :
                    a \in DateValues, b \in DateValues,
                    x \in FormTexts, y \in FormTexts, z \in FormTexts}
    /\ pay = NoPay
    /\ probe = NoCalls
    /\ last = "idle"

CallUpdateSummary ==
    /\ probe.runs < MaxRuns
    /\ dom' = updateSummary(dom)
    /\ probe' = [fn |-> "updateSummary", runs |-> probe.runs + 1, shown |-> Shown(dom),
                 data |-> probe.data]
    /\ last' = "updateSummary"
    /\ UNCHANGED <<today, tzShift, layout, page, slot, pay>>

CallBuildCheckoutData ==
    /\ page = "booking"
    /\ probe.fn # "buildCheckoutData"
    /\ \E b \in {buildCheckoutData(dom)} :
        /\ dom' = b.dom
        /\ probe' = [fn |-> "buildCheckoutData", runs |-> probe.runs, shown |-> Shown(dom),
                     data |-> b.data]
    /\ UNCHANGED <<today, tzShift, layout, page, slot, pay, last>>

NextForm ==
    \/ CallUpdateSummary
    \/ CallBuildCheckoutData

SpecForm == InitForm /\ [][NextForm]_vars

RoomIdsOf(rooms) == [i \in 1..Len(rooms) |-> rooms[i].id]

RECURSIVE SumQty(_)
SumQty(rooms) == IF rooms = <<>> THEN 0 ELSE Head(rooms).qty + SumQty(Tail(rooms))

\* the sum of the amounts the payment page prints, one per room
RECURSIVE SumRows(_, _)
SumRows(rooms, nights) ==
    IF rooms = <<>> THEN 0
    ELSE rowAmount(Head(rooms), JNum(nights)).n + SumRows(Tail(rooms), nights)

\* C12: the payload of buildCheckoutData lists the room types with a positive
\* quantity in the order Standard, Superior, Family (the lines of the summary),
\* each with its quantity and its unit price 200, 300 or 400; totalRooms is the
\* sum of the quantities and total the sum of qty * price * nights over the rooms.
C12_PayloadMirrorsSummary ==
    probe.fn = "buildCheckoutData" =>
        /\ RoomIdsOf(probe.data.rooms) = FieldIds(dom)
        /\ (last = "updateSummary" /\ layout = "list") =>
                RoomIdsOf(probe.data.rooms) = ItemIds(dom)
        /\ \A i \in 1..Len(probe.data.rooms) :
              /\ probe.data.rooms[i].qty = FieldCount(dom.qty[probe.data.rooms[i].id])
              /\ probe.data.rooms[i].price =
                    [std |-> 200, sup |-> 300, fam |-> 400][probe.data.rooms[i].id]
        /\ probe.data.totalRooms = SumQty(probe.data.rooms)
        /\ probe.data.nights = FieldNights(dom)
        /\ probe.data.total = SumRows(probe.data.rooms, probe.data.nights)

C12_Witness ==
    /\ probe.fn = "buildCheckoutData"
    /\ last = "updateSummary" /\ layout = "list"
    /\ RoomIdsOf(probe.data.rooms) = <<"std", "fam">>
    /\ probe.data.nights = 2
    /\ probe.data.totalRooms = 4
    /\ probe.data.total = 2800

\* C13: a second recomputation with no input in between displays what the first
\* one displayed: dates, lines, advisory and total, also when the first one
\* found a quantity field invalid and emptied it.
C13_RecomputeIdempotent ==
    (probe.fn = "updateSummary" /\ probe.runs >= 2) => Shown(dom) = probe.shown

C13_Witness ==
    /\ probe.fn = "updateSummary" /\ probe.runs = 2
    /\ probe.data = EmptyData
    /\ dom.modal = MsgQty
    /\ dom.qty.std = <<>> /\ dom.qty.sup = <<"3">>
    /\ dom.checkin = IsoDate(1) /\ dom.checkout = IsoDate(2)
    /\ dom.totalText = "$900.00"

(***************************************************************************)
(* Through the slot and back: a filled booking form, Continue, then the    *)
(* booking page opened again (restoreFromCheckout) and the payload built   *)
(* once more.                                                              *)
(***************************************************************************)
RoundTexts == {<<"0">>, <<"1">>, <<"2">>, <<"9">>}

InitRound ==
    /\ today \in Days
    /\ tzShift = 0
    /\ layout \in {"list", "compact"}
    /\ page = "booking"
    /\ slot = SlotAbsent
    /\ dom \in {updateSummary([InitialDom EXCEPT !.checkin = a, !.checkout = b,
                                                 !.qty = [std |-> x, sup |-> y, fam |-> z]]) :
                    a \in DateValues, b \in DateValues,
                    x \in RoundTexts, y \in RoundTexts, z \in RoundTexts}
    /\ pay = NoPay
    /\ probe = NoCalls
    /\ last = "updateSummary"

\* booking.html is opened from the payment page: DOMContentLoaded runs initBooking
BookingLoad ==
    /\ page = "payment"
    /\ page' = "booking"
    /\ dom' = initBooking(InitialDom, slot)
    /\ probe' = NoCalls
    /\ last' = "restored"
    /\ UNCHANGED <<today, tzShift, layout, slot, pay>>

NextRound ==
    \/ ContinueClick
    \/ BookingLoad
    \/ CallBuildCheckoutData

SpecRound == InitRound /\ [][NextRound]_vars

\* C14: the payload built from a form restored from the slot is the payload a
\* successful Continue stored there: same check-in, check-out, rooms, nights,
\* total (and totalRooms).
C14_RoundTrip ==
    (probe.fn = "buildCheckoutData" /\ last = "restored") => stringify(probe.data) = slot

C14_Witness ==
    /\ probe.fn = "buildCheckoutData" /\ last = "restored"
    /\ slot.kind = "object"
    /\ slot.obj.total = JNum(4400)
    /\ probe.data.total = 4400
    /\ probe.data.nights = 2
    /\ RoomIdsOf(probe.data.rooms) = <<"std", "fam">>

\* C15 as stated: no validation of a payment field raises an exception that
\* aborts its handler.
C15_ValidationNeverThrows == page = "payment" => last # "threw"

\* C16 as stated: a room type hidden by the guest filter has quantity 0, so it is
\* on no summary line and adds nothing to the total.
C16_HiddenRoomsAreEmpty ==
    page = "booking" =>
        \A id \in RoomIdSet : ~dom.visible[id] => FieldCount(dom.qty[id]) = 0

\* both dates present, neither before today, check-out after check-in
ValidDates(d) ==
    /\ HasDates(d)
    /\ DayOf(d.checkin) >= today
    /\ DayOf(d.checkout) >= today
    /\ DayOf(d.checkout) > DayOf(d.checkin)

\* 1 -> Standard, 2 -> Superior, 3-5 -> Family, all -> every room type
GuestsMatch(guests, id) ==
    \/ guests = "all"
    \/ guests = "1" /\ id = "std"
    \/ guests = "2" /\ id = "sup"
    \/ guests = "3-5" /\ id = "fam"

\* C17: while the booking page stays open, the visibility (and enabled flag) of
\* a room type changes only in a Search submit with valid dates; after such a
\* submit a room type is visible exactly when the guests selection is "all" or
\* names it.  Rejected submits and all other events leave it as it was.
C17_FilterOnlyOnAcceptedSearch ==
    [][/\ (page' = "booking" /\ dom'.visible # dom.visible)
            => (ValidDates(dom) /\ SearchSubmit)
       /\ (ValidDates(dom) /\ SearchSubmit)
            => \A id \in RoomIdSet : dom'.visible[id] <=> GuestsMatch(dom.guests, id)]_vars

C17_Witness ==
    /\ page = "booking" /\ last = "updateSummary"
    /\ dom.guests = "2"
    /\ dom.visible = [std |-> FALSE, sup |-> TRUE, fam |-> FALSE]
    /\ dom.modal = ""

(***************************************************************************)
(* The quantity buttons over the whole range: the page is opened on a      *)
(* payload that an earlier Continue stored with 9 rooms of each type, then *)
(* inc, dec and remove are clicked in any order.                           *)
(***************************************************************************)
StepForms ==
    {updateSummary([InitialDom EXCEPT !.checkin = IsoDate(a), !.checkout = IsoDate(b),
                                      !.qty = [std |-> x, sup |-> y, fam |-> z]]) :
        a \in Days, b \in Days, x \in {<<"9">>}, y \in {<<"9">>}, z \in {<<"9">>}}

\* what Continue stores for these forms
StepSlots == {stringify(c.data) : c \in {x \in {continueClick(f) : f \in StepForms} : x.stored}}

InitStep ==
    /\ today = 0
    /\ tzShift = 0
    /\ layout \in {"list", "compact"}
    /\ page = "booking"
    /\ slot \in StepSlots
    /\ dom = initBooking(InitialDom, slot)
    /\ pay = NoPay
    /\ probe = NoProbe
    /\ last = "updateSummary"

NextStep ==
    \/ \E id \in RoomIdSet : IncAny(id)
    \/ \E id \in RoomIdSet : DecClick(id)
    \/ \E id \in RoomIdSet : RemoveClick(id)

SpecStep == InitStep /\ [][NextStep]_vars

\* the texts "0" .. "9"
CountTexts == {<<Digits[n + 1]>> : n \in QtyMin..QtyMax}

Least(a, b) == IF a < b THEN a ELSE b
Most(a, b) == IF a > b THEN a ELSE b

\* C18: from quantities in 0..9, after any inc, dec and remove clicks every
\* quantity field holds an integer from 0 to 9 and the invalid-quantity message
\* is never shown; inc adds one but leaves 9, dec takes one but leaves 0, remove
\* gives 0.
C18_ButtonsKeepRange ==
    /\ [](\A id \in RoomIdSet : dom.qty[id] \in CountTexts /\ dom.modal = "")
    /\ [][\A id \in RoomIdSet :
            /\ IncAny(id) => FieldCount(dom'.qty[id]) = Least(FieldCount(dom.qty[id]) + 1, 9)
            /\ DecClick(id) => FieldCount(dom'.qty[id]) = Most(FieldCount(dom.qty[id]) - 1, 0)
            /\ RemoveClick(id) => FieldCount(dom'.qty[id]) = 0]_vars

C18_Witness ==
    /\ page = "booking" /\ last = "updateSummary"
    /\ slot.obj.totalRooms = JNum(27)
    /\ dom.qty = [std |-> <<"9">>, sup |-> <<"1">>, fam |-> <<"0">>]
    /\ dom.modal = ""

\* the items without the line of room id
RECURSIVE Without(_, _)
Without(ids, id) ==
    IF ids = <<>> THEN <<>>
    ELSE (IF Head(ids) = id THEN <<>> ELSE <<Head(ids)>>) \o Without(Tail(ids), id)

\* C20: a click on the remove button of a line sets that room type to 0 and
\* leaves the other quantities, the dates and the slot; the line is gone, the
\* other lines stay, and the total drops by qty * unit price * nights of the line.
C20_RemoveOneLine ==
    [][\A id \in RoomIdSet : RemoveClick(id) =>
            /\ dom'.qty[id] = <<"0">>
            /\ \A o \in RoomIdSet \ {id} : dom'.qty[o] = dom.qty[o]
            /\ dom'.checkin = dom.checkin /\ dom'.checkout = dom.checkout
            /\ slot' = slot
            /\ ItemIds(dom') = Without(ItemIds(dom), id)
            /\ \A i \in 1..Len(dom'.items) : dom'.items[i].id # id
            /\ dom'.totalText =
                 formatPrice(FieldTotal(dom)
                     - FieldCount(dom.qty[id]) * [std |-> 200, sup |-> 300, fam |-> 400][id]
                         * FieldNights(dom))]_vars

C20_Witness ==
    /\ page = "booking" /\ last = "updateSummary" /\ layout = "list"
    /\ slot.obj.totalRooms = JNum(27) /\ slot.obj.nights = JNum(2)
    /\ dom.qty = [std |-> <<"9">>, sup |-> <<"0">>, fam |-> <<"9">>]
    /\ ItemIds(dom) = <<"std", "fam">>
    /\ dom.totalText = "$10,800.00"

(***************************************************************************)
(* Search and Continue on the same form: every pair of raw date values,    *)
(* every today.  A raw value is "", an ISO date, or a date the input       *)
(* accepts and new Date() cannot parse (a year of five digits).            *)
(***************************************************************************)
FarDate == "10000-01-01"
RawDates == DateValues \cup {FarDate}

InitCompare ==
    /\ today \in Days
    /\ tzShift \in {0 - 1, 0, 1}
    /\ layout = "list"
    /\ page = "booking"
    /\ slot = SlotAbsent
    /\ dom \in {updateSummary([InitialDom EXCEPT !.checkin = a, !.checkout = b,
                                                 !.qty.std = x]) :
                    a \in RawDates, b \in RawDates, x \in {<<"0">>, <<"1">>}}
    /\ pay = NoPay
    /\ probe = NoProbe
    /\ last = "updateSummary"

\* submit of the search form
CallHandleSubmit ==
    /\ probe.fn = "none"
    /\ Interactive
    /\ dom' = handleSubmit(dom)
    /\ probe' = [fn |-> "handleSubmit", form |-> dom]
    /\ last' = IF dom.checkin # "" /\ dom.checkout # "" /\ validateDates(dom).ok
               THEN "updateSummary" ELSE "rejected"
    /\ UNCHANGED <<today, tzShift, layout, page, slot, pay>>

\* click on .btn-continue
CallContinue ==
    /\ probe.fn = "none"
    /\ Interactive
    /\ \E c \in {continueClick(dom)} :
           IF c.stored
           THEN /\ slot' = stringify(c.data)
                /\ page' = "payment"
                /\ dom' = InitialDom
           ELSE /\ dom' = c.dom
                /\ UNCHANGED <<slot, page>>
    /\ probe' = [fn |-> "continue", form |-> dom]
    /\ last' = IF page' = "payment" THEN "stored" ELSE "rejected"
    /\ UNCHANGED <<today, tzShift, layout, pay>>

NextCompare == CallHandleSubmit \/ CallContinue

SpecCompare == InitCompare /\ [][NextCompare]_vars

\* what a handler said about the dates: one of the four date messages, or
\* "" when it went on past the date checks
DateReason(m) == IF m \in {MsgComplete, MsgInPast, MsgOutPast, MsgOrder} THEN m ELSE ""

\* C19: on every form, the date verdict of Search (handleSubmit with
\* validateDates) and that of Continue (the .btn-continue handler) are the
\* same: both go on past the date checks, or both show the same one of the
\* four date messages.
C19_SameDateVerdict ==
    /\ probe.fn = "handleSubmit" =>
           DateReason(dom.modal) = DateReason(continueClick(probe.form).dom.modal)
    /\ (probe.fn = "continue" /\ page = "booking") =>
           DateReason(dom.modal) = DateReason(handleSubmit(probe.form).modal)
    /\ (probe.fn = "continue" /\ page = "payment") =>
           DateReason(handleSubmit(probe.form).modal) = ""

(***************************************************************************)
(* From the booking page to the payment page: every form the booking page  *)
(* can show, every today, with and without a clock change, whatever the    *)
(* slot held before.  Continue stores and navigates, payment.html is       *)
(* opened and its DOMContentLoaded handler runs; the user may go back.     *)
(***************************************************************************)
InitVisit ==
    /\ today \in Days
    /\ tzShift \in {0 - 1, 0, 1}
    /\ layout = "list"
    /\ page = "booking"
    /\ slot \in BookingSlots
    /\ dom \in {updateSummary([InitialDom EXCEPT !.checkin = a, !.checkout = b,
                                                 !.qty = [std |-> x, sup |-> y, fam |-> z]]) :
                    a \in DateValues, b \in DateValues,
                    x \in RoundTexts, y \in RoundTexts, z \in RoundTexts}
    /\ pay = NoPay
    /\ probe = NoCalls
    /\ last = "updateSummary"

\* window.location.href = "payment.html": the browser opens the payment document
PaymentOpen ==
    /\ page = "payment"
    /\ last = "stored"
    /\ pay' = BlankPay
    /\ last' = "opened"
    /\ UNCHANGED <<today, tzShift, layout, page, slot, dom, probe>>

NextVisit ==
    \/ ContinueClick
    \/ PaymentOpen
    \/ PaymentLoad
    \/ BookingLoad

SpecVisit == InitVisit /\ [][NextVisit]_vars

\* a stored record the payment page takes: nights, rooms and total as the claim
\* lists them
Payable(sl) ==
    /\ sl.kind = "object"
    /\ sl.obj.nights.t = "num" /\ sl.obj.nights.n >= 1
    /\ sl.obj.rooms.t = "arr" /\ Len(sl.obj.rooms.a) >= 1
    /\ \A i \in 1..Len(sl.obj.rooms.a) : sl.obj.rooms.a[i].qty \in 1..QtyMax
    /\ sl.obj.total.t = "num" /\ sl.obj.total.n > 0

\* C21: whenever Continue has stored a record and left for the payment page,
\* the record has nights >= 1, at least one room, every quantity in 1..9 and
\* a total above 0; and when the payment page has then run its load handler,
\* it has stayed on the payment page with the summary rendered from the
\* record, not gone back to booking.
C21_StoredPayloadIsAccepted ==
    /\ last = "stored" => (page = "payment" /\ Payable(slot))
    /\ last = "opened" => Payable(slot)
    /\ last = "load" =>
           /\ Payable(slot)
           /\ page = "payment"
           /\ pay.state = "ready"
           /\ pay.sumTotal = formatPrice(slot.obj.total.n)
           /\ pay.sumNights = NatToStr(slot.obj.nights.n)
           /\ Len(pay.sumRooms) = Len(slot.obj.rooms.a)

C21_Witness ==
    /\ last = "load"
    /\ page = "payment"
    /\ pay.state = "ready"
    /\ tzShift = 0
    /\ slot.obj.nights = JNum(2)
    /\ slot.obj.totalRooms = JNum(10)
    /\ Len(pay.sumRooms) = 2
    /\ pay.sumRooms[1].label = "9 Standard Rooms"
    /\ pay.sumTotal = "$4,400.00"
====
